---- MODULE Spec2Model ----
(***************************************************************************)
(* Authentication token lifecycle of SecurityShield: the axios request     *)
(* coordinator of frontend/src/services/api.ts (isRefreshing, failedQueue, *)
(* request and response interceptors, authAPI) running against the Session *)
(* Store and Token Issuer of the backend, which are modelled from sections *)
(* 3 and 4 of the specification.                                           *)
(***************************************************************************)
EXTENDS Integers, Sequences, FiniteSets, TLC

\* ------------------------------------------------------------------ bounds
NCalls == 2
MaxTime == 2
MaxSessions == 2
AccessLifetime == 1
SessionLifetime == 2
NUsers == 2
MaxIds == 6

Calls == 1..NCalls
ClientUser == 1
Users == {ClientUser}

\* ------------------------------------------------------------------ values
NoToken == [typ |-> "none"]
NoResp == [status |-> -1, detail |-> "", access_token |-> NoToken,
           refresh_token |-> NoToken]
NoOut == [settled |-> FALSE, ok |-> FALSE, msg |-> "", token |-> NoToken]
NoHandler == [pc |-> "idle", c |-> 0, token |-> NoToken, err |-> "", flushed |-> <<>>]

\* error messages of api.ts
MsgSessionExpired == "Session expired. Please login again."
MsgNoRefreshToken == "No refresh token available"
MsgGeneric == "An error occurred"
MsgNoConnect == "Unable to connect to server. Please check if the API is running."

VARIABLES
  now,            \* server clock
  sessions,       \* Session Store: sequence of Session rows, session_id = index
  nextId,         \* source of fresh token_id / refresh-token nonces
  storage,        \* localStorage: access_token, refresh_token, user
  cookie,         \* document.cookie as scripts read it: sequence of name, value
  isRefreshing,   \* api.ts:13
  failedQueue,    \* api.ts:18, sequence of call ids whose continuation is queued
  calls,          \* one record per call made through the axios instance
  h,              \* the response handler that is currently running (run to completion)
  location,       \* window.location: pathname (its segments) and the href assigned, if any
  refreshCalls    \* number of POST /auth/refresh sent by this client so far

vars == <<now, sessions, nextId, storage, cookie, isRefreshing, failedQueue,
          calls, h, location, refreshCalls>>

serverVars == <<now, sessions, nextId>>

\* ------------------------------------------------- Session Store (spec 4.1)
Fingerprint(rt) == <<"sha256", rt.session_id, rt.nonce>>

ActiveOf(S, u) == {i \in 1..Len(S) : S[i].user_id = u /\ S[i].is_active}

\* mutant: is_active is flipped
deactivateToggles(S, sid) ==
  IF sid \in 1..Len(S)
  THEN [S EXCEPT ![sid].is_active = ~S[sid].is_active]
  ELSE S

deactivate(S, sid) ==
  IF sid \in 1..Len(S)
  THEN [S EXCEPT ![sid].is_active = FALSE]
  ELSE S

\* mutant: the new session is inserted without deactivating the prior one
createSessionKeepsPrior(S, u, fp, atid, t) ==
  Append(S,
         [user_id |-> u, refresh_token_fingerprint |-> fp,
          active_access_token_id |-> atid, is_active |-> TRUE,
          created_at |-> t, last_activity_at |-> t,
          expires_at |-> t + SessionLifetime])

createSession(S, u, fp, atid, t) ==
  Append([i \in 1..Len(S) |->
            IF S[i].user_id = u THEN [S[i] EXCEPT !.is_active = FALSE] ELSE S[i]],
         [user_id |-> u, refresh_token_fingerprint |-> fp,
          active_access_token_id |-> atid, is_active |-> TRUE,
          created_at |-> t, last_activity_at |-> t,
          expires_at |-> t + SessionLifetime])

\* mutant: is_active is not looked at
validateResultIgnoresActive(S, sid, fp, t) ==
  IF sid \notin 1..Len(S) THEN "SessionInvalid"
  ELSE IF t >= S[sid].expires_at THEN "SessionExpired"
  ELSE IF S[sid].refresh_token_fingerprint # fp THEN "RefreshMismatch"
  ELSE "ok"

\* result of validateAndTouch: the failure kind or "ok"
validateResult(S, sid, fp, t) ==
  IF sid \notin 1..Len(S) THEN "SessionInvalid"
  ELSE IF ~S[sid].is_active THEN "SessionInvalid"
  ELSE IF t >= S[sid].expires_at THEN "SessionExpired"
  ELSE IF S[sid].refresh_token_fingerprint # fp THEN "RefreshMismatch"
  ELSE "ok"

\* mutant: last_activity_at is written whatever the result
validateAndTouchAlways(S, sid, fp, t) ==
  IF sid \in 1..Len(S) THEN [S EXCEPT ![sid].last_activity_at = t] ELSE S

\* store after validateAndTouch: touch on success, lazy deactivation on expiry
validateAndTouch(S, sid, fp, t) ==
  LET r == validateResult(S, sid, fp, t) IN
  IF r = "ok" THEN [S EXCEPT ![sid].last_activity_at = t]
  ELSE IF r = "SessionExpired" THEN deactivate(S, sid)
  ELSE S

\* mutant: the write of active_access_token_id is lost
rotateAccessTokenLost(S, sid, atid) == S

rotateAccessToken(S, sid, atid) ==
  [S EXCEPT ![sid].active_access_token_id = atid]

\* -------------------------------------------------- Token Issuer (spec 4.2)
AccessToken(u, sid, tid, t) ==
  [typ |-> "access", user_id |-> u, session_id |-> sid, token_id |-> tid,
   issued_at |-> t, expires_at |-> t + AccessLifetime]

RefreshToken(sid, n) == [typ |-> "refresh", session_id |-> sid, nonce |-> n]

\* issueTokenPair: the reply of POST /auth/login and the store after it
issueTokenPair(S, u, id, t) ==
  LET sid == Len(S) + 1
      rt == RefreshToken(sid, id + 1)
  IN [sessions |-> createSession(S, u, Fingerprint(rt), id, t),
      access_token |-> AccessToken(u, sid, id, t),
      refresh_token |-> rt,
      nextId |-> id + 2]

\* mutant: the refreshed access token keeps the token_id of its predecessor
refreshKeepsTokenId(S, rt, id, t) ==
  IF rt.typ # "refresh"
  THEN [sessions |-> S, result |-> "RefreshMalformed", access_token |-> NoToken,
        nextId |-> id]
  ELSE LET r == validateResult(S, rt.session_id, Fingerprint(rt), t)
           S1 == validateAndTouch(S, rt.session_id, Fingerprint(rt), t)
           old == S1[rt.session_id].active_access_token_id
       IN IF r = "ok"
          THEN [sessions |-> rotateAccessToken(S1, rt.session_id, old),
                result |-> "ok",
                access_token |-> AccessToken(S1[rt.session_id].user_id,
                                             rt.session_id, old, t),
                nextId |-> id + 1]
          ELSE [sessions |-> S1, result |-> r, access_token |-> NoToken,
                nextId |-> id]

\* refresh: the reply of POST /auth/refresh and the store after it
refresh(S, rt, id, t) ==
  IF rt.typ # "refresh"
  THEN [sessions |-> S, result |-> "RefreshMalformed", access_token |-> NoToken,
        nextId |-> id]
  ELSE LET r == validateResult(S, rt.session_id, Fingerprint(rt), t)
           S1 == validateAndTouch(S, rt.session_id, Fingerprint(rt), t)
       IN IF r = "ok"
          THEN [sessions |-> rotateAccessToken(S1, rt.session_id, id),
                result |-> "ok",
                access_token |-> AccessToken(S1[rt.session_id].user_id,
                                             rt.session_id, id, t),
                nextId |-> id + 1]
          ELSE [sessions |-> S1, result |-> r, access_token |-> NoToken,
                nextId |-> id]

\* refresh under a rotation policy: the new refresh token's fingerprint is
\* written to the session together with the new access token id
refreshRotating(S, rt, id, t) ==
  LET r == refresh(S, rt, id, t) IN
  IF r.result = "ok"
  THEN LET new == RefreshToken(rt.session_id, id + 1) IN
       [sessions |-> [r.sessions EXCEPT
                        ![rt.session_id].refresh_token_fingerprint = Fingerprint(new)],
        result |-> "ok", access_token |-> r.access_token,
        refresh_token |-> new, nextId |-> id + 2]
  ELSE [sessions |-> r.sessions, result |-> r.result, access_token |-> NoToken,
        refresh_token |-> NoToken, nextId |-> r.nextId]

\* mutant: a token of a deactivated session is answered Revoked
verifyAccessTokenChecksActive(S, at, t) ==
  IF at.typ # "access" THEN "Malformed"
  ELSE IF at.session_id \notin 1..Len(S) THEN "Malformed"
  ELSE IF t >= at.expires_at THEN "Expired"
  ELSE IF ~S[at.session_id].is_active THEN "Revoked"
  ELSE IF S[at.session_id].active_access_token_id # at.token_id THEN "Revoked"
  ELSE "Claims"

\* mutant: token_id is not compared with active_access_token_id
verifyAccessTokenNoRevocation(S, at, t) ==
  IF at.typ # "access" THEN "Malformed"
  ELSE IF at.session_id \notin 1..Len(S) THEN "Malformed"
  ELSE IF t >= at.expires_at THEN "Expired"
  ELSE "Claims"

verifyAccessToken(S, at, t) ==
  IF at.typ # "access" THEN "Malformed"
  ELSE IF at.session_id \notin 1..Len(S) THEN "Malformed"
  ELSE IF t >= at.expires_at THEN "Expired"
  ELSE IF S[at.session_id].active_access_token_id # at.token_id THEN "Revoked"
  ELSE "Claims"

logout(S, sid) == deactivate(S, sid)

\* ------------------------------------------------------- HTTP responses
Ok(at, rt) == [status |-> 200, detail |-> "", access_token |-> at, refresh_token |-> rt]
Unauthorized(d) == [status |-> 401, detail |-> d, access_token |-> NoToken,
                    refresh_token |-> NoToken]
\* a failure that is not an authentication failure: an error status with or
\* without a detail text, or no response at all (status 0)
NonAuthFailures ==
  {[status |-> 500, detail |-> "", access_token |-> NoToken, refresh_token |-> NoToken],
   [status |-> 0, detail |-> "", access_token |-> NoToken, refresh_token |-> NoToken]}

\* what the backend answers to an authenticated call carrying bearer token at
ApiReply(S, at, t) ==
  IF verifyAccessToken(S, at, t) = "Claims" THEN Ok(NoToken, NoToken)
  ELSE Unauthorized(verifyAccessToken(S, at, t))

\* ------------------------------------------ request coordinator (api.ts)
\* mutant: every error status is taken for an authentication failure
IsAuthFailureAnyStatus(resp) == resp.status >= 400

\* error.response?.status === 401 (api.ts:65)
IsAuthFailure(resp) == resp.status = 401

isLandingPageData(url) == url = "/landing-page-data"
\* mutant: only the refresh endpoint is taken for an auth endpoint
isAuthEndpointRefreshOnly(url) == url = "/auth/refresh"

isAuthEndpoint(url) == url \in {"/auth/login", "/auth/signup", "/auth/refresh"}

\* document.cookie.split(';').find(c => c.trim().startsWith(name + '='))
\* ?.split('=')[1]: the value of the first cookie of that name, if any
CookieValue(ck, name) ==
  LET found == {i \in 1..Len(ck) : ck[i].name = name} IN
  IF found = {} THEN NoToken
  ELSE ck[CHOOSE i \in found : \A j \in found : i <= j].value

\* mutant: the cookie is read before localStorage
RequestInterceptorCookieFirst(st, ck, hdr) ==
  LET token == IF CookieValue(ck, "access_token") # NoToken
               THEN CookieValue(ck, "access_token") ELSE st.access_token
  IN IF token # NoToken THEN token ELSE hdr

\* request interceptor: the bearer header of a request whose config already
\* carries header hdr
RequestInterceptor(st, ck, hdr) ==
  LET token == IF st.access_token # NoToken THEN st.access_token
               ELSE CookieValue(ck, "access_token")
  IN IF token # NoToken THEN token ELSE hdr

\* the message of the Error thrown for a response that is surfaced
ErrorMessage(resp) ==
  IF resp.status = 0 THEN MsgNoConnect
  ELSE IF resp.detail # "" THEN resp.detail
  ELSE MsgGeneric

ClearedStorage == [access_token |-> NoToken, refresh_token |-> NoToken, user |-> 0]

Settled(ok, msg, tok) == [settled |-> TRUE, ok |-> ok, msg |-> msg, token |-> tok]

\* api(config): run the request interceptor and put the request on the wire
Dispatched(r, st, ck) ==
  [r EXCEPT !.st = "sent", !.hdr = RequestInterceptor(st, ck, r.hdr),
            !.withCredentials = TRUE,
            !.resp = NoResp, !.n = r.n + 1]

Idle == h.pc = "idle"

\* the endpoints that take no bearer token: api.ts:292, 298, 361 and 466
PublicUrls == {"/auth/login", "/auth/signup", "/auth/refresh", "/landing-page-data"}

\* a caller makes a call to an endpoint through the axios instance
Issue(c, url) ==
  /\ Idle
  /\ calls[c].st = "idle"
  /\ calls' = [calls EXCEPT ![c] =
                 Dispatched([calls[c] EXCEPT !.url = url], storage, cookie)]
  /\ UNCHANGED <<serverVars, storage, cookie, isRefreshing, failedQueue, h,
                 location, refreshCalls>>

\* the backend answers call c after verifying its bearer token
ServerReply(c) ==
  /\ Idle
  /\ calls[c].st = "sent"
  /\ calls[c].url \notin PublicUrls \cup {"/auth/logout"}
  /\ calls[c].resp = NoResp
  /\ calls' = [calls EXCEPT ![c].resp = ApiReply(sessions, calls[c].hdr, now)]
  /\ UNCHANGED <<serverVars, storage, cookie, isRefreshing, failedQueue, h,
                 location, refreshCalls>>

\* call c fails for a reason that is not an authentication failure
CallFails(c) ==
  /\ Idle
  /\ calls[c].st = "sent"
  /\ calls[c].resp = NoResp
  /\ \E resp \in NonAuthFailures : calls' = [calls EXCEPT ![c].resp = resp]
  /\ UNCHANGED <<serverVars, storage, cookie, isRefreshing, failedQueue, h,
                 location, refreshCalls>>

\* -------------------------------------------------- response interceptor
\* mutant: on failure the queue is emptied without rejecting the continuations
processQueueNoReject(cs, q, failed, err) ==
  [c \in Calls |->
     IF (\E i \in 1..Len(q) : q[i] = c) /\ ~failed
     THEN [cs[c] EXCEPT !.st = "resolved"]
     ELSE cs[c]]

\* processQueue: the calls after every queued continuation has been settled,
\* rejected with err, or resolved (its replay then runs as a microtask)
processQueue(cs, q, failed, err) ==
  [c \in Calls |->
     IF \E i \in 1..Len(q) : q[i] = c
     THEN IF failed
          THEN [cs[c] EXCEPT !.st = "done", !.out = Settled(FALSE, err, cs[c].hdr)]
          ELSE [cs[c] EXCEPT !.st = "resolved"]
     ELSE cs[c]]

\* a response with status 2xx is returned to the caller unchanged (api.ts:60)
HandleSuccess(c) ==
  /\ Idle
  /\ calls[c].st = "sent"
  /\ calls[c].via # "refreshToken"
  /\ calls[c].resp.status = 200
  /\ calls' = [calls EXCEPT ![c].st = "done",
                            ![c].out = Settled(TRUE, "", calls[c].hdr)]
  /\ UNCHANGED <<serverVars, storage, cookie, isRefreshing, failedQueue, h,
                 location, refreshCalls>>

\* api.ts:157-164, reached when the status is not 401, there is no response,
\* or the call was already retried
HandleOtherError(c) ==
  /\ Idle
  /\ calls[c].st = "sent"
  /\ calls[c].resp.status \notin {-1, 200}
  /\ ~(IsAuthFailure(calls[c].resp) /\ ~calls[c].retry)
  /\ calls' = [calls EXCEPT ![c].st = "done",
                 ![c].out = Settled(FALSE, ErrorMessage(calls[c].resp), calls[c].hdr)]
  /\ UNCHANGED <<serverVars, storage, cookie, isRefreshing, failedQueue, h,
                 location, refreshCalls>>

\* mutant: the stored credentials are removed for the landing page data too
HandleExempt401AlwaysClears(c) ==
  /\ Idle
  /\ calls[c].st = "sent"
  /\ IsAuthFailure(calls[c].resp) /\ ~calls[c].retry
  /\ isAuthEndpoint(calls[c].url) \/ isLandingPageData(calls[c].url)
  /\ storage' = ClearedStorage
  /\ calls' = [calls EXCEPT ![c].st = "done",
                 ![c].out = Settled(FALSE, ErrorMessage(calls[c].resp), calls[c].hdr)]
  /\ UNCHANGED <<serverVars, cookie, isRefreshing, failedQueue, h, location,
                 refreshCalls>>

\* api.ts:72-80, a 401 from an auth endpoint or from the landing page data
HandleExempt401(c) ==
  /\ Idle
  /\ calls[c].st = "sent"
  /\ IsAuthFailure(calls[c].resp) /\ ~calls[c].retry
  /\ isAuthEndpoint(calls[c].url) \/ isLandingPageData(calls[c].url)
  /\ storage' = IF isLandingPageData(calls[c].url) THEN storage ELSE ClearedStorage
  /\ calls' = [calls EXCEPT ![c].st = "done",
                 ![c].out = Settled(FALSE, ErrorMessage(calls[c].resp), calls[c].hdr)]
  /\ UNCHANGED <<serverVars, cookie, isRefreshing, failedQueue, h, location,
                 refreshCalls>>

Refreshable401(c) ==
  /\ calls[c].st = "sent"
  /\ IsAuthFailure(calls[c].resp) /\ ~calls[c].retry
  /\ ~isAuthEndpoint(calls[c].url) /\ ~isLandingPageData(calls[c].url)

\* mutant: the continuation is queued whether or not a refresh is in progress
EnqueueWithoutRefresh(c) ==
  /\ Idle
  /\ Refreshable401(c)
  /\ failedQueue' = Append(failedQueue, c)
  /\ calls' = [calls EXCEPT ![c].st = "queued"]
  /\ UNCHANGED <<serverVars, storage, cookie, isRefreshing, h, location,
                 refreshCalls>>

\* api.ts:83-97, a refresh is in progress: queue the continuation
Enqueue(c) ==
  /\ Idle
  /\ Refreshable401(c)
  /\ isRefreshing
  /\ failedQueue' = Append(failedQueue, c)
  /\ calls' = [calls EXCEPT ![c].st = "queued"]
  /\ UNCHANGED <<serverVars, storage, cookie, isRefreshing, h, location,
                 refreshCalls>>

\* the refresh token read at api.ts:103-104
StoredRefreshToken ==
  IF storage.refresh_token # NoToken THEN storage.refresh_token
  ELSE CookieValue(cookie, "refresh_token")

\* mutant: /auth/refresh is posted even when no refresh token was found
StartRefreshWithoutToken(c) ==
  /\ Idle
  /\ Refreshable401(c)
  /\ ~isRefreshing
  /\ isRefreshing' = TRUE
  /\ calls' = [calls EXCEPT ![c].retry = TRUE, ![c].st = "refreshing",
                            ![c].rbody = StoredRefreshToken,
                            ![c].rresp = NoResp]
  /\ refreshCalls' = refreshCalls + 1
  /\ UNCHANGED <<serverVars, storage, cookie, failedQueue, location, h>>

\* mutant: the call is not marked as retried
StartRefreshUnmarked(c) ==
  /\ Idle
  /\ Refreshable401(c)
  /\ ~isRefreshing
  /\ isRefreshing' = TRUE
  /\ IF StoredRefreshToken = NoToken
     THEN /\ calls' = [calls EXCEPT ![c].st = "handling"]
          /\ h' = [NoHandler EXCEPT !.pc = "catch", !.c = c, !.err = MsgNoRefreshToken]
          /\ UNCHANGED refreshCalls
     ELSE /\ calls' = [calls EXCEPT ![c].st = "refreshing",
                                    ![c].rbody = StoredRefreshToken,
                                    ![c].rresp = NoResp]
          /\ refreshCalls' = refreshCalls + 1
          /\ UNCHANGED h
  /\ UNCHANGED <<serverVars, storage, cookie, failedQueue, location>>

\* api.ts:99-114, no refresh in progress: mark the call, raise the flag and
\* post /auth/refresh, or throw when there is no refresh token
StartRefresh(c) ==
  /\ Idle
  /\ Refreshable401(c)
  /\ ~isRefreshing
  /\ isRefreshing' = TRUE
  /\ IF StoredRefreshToken = NoToken
     THEN /\ calls' = [calls EXCEPT ![c].retry = TRUE, ![c].st = "handling"]
          /\ h' = [NoHandler EXCEPT !.pc = "catch", !.c = c, !.err = MsgNoRefreshToken]
          /\ UNCHANGED refreshCalls
     ELSE /\ calls' = [calls EXCEPT ![c].retry = TRUE, ![c].st = "refreshing",
                                    ![c].rbody = StoredRefreshToken,
                                    ![c].rresp = NoResp]
          /\ refreshCalls' = refreshCalls + 1
          /\ UNCHANGED h
  /\ UNCHANGED <<serverVars, storage, cookie, failedQueue, location>>

\* the backend answers the POST /auth/refresh made for call c (Token Issuer
\* refresh)
RefreshReply(c) ==
  /\ Idle
  /\ calls[c].st = "refreshing"
  /\ calls[c].rresp = NoResp
  /\ LET r == refresh(sessions, calls[c].rbody, nextId, now) IN
       /\ sessions' = r.sessions
       /\ nextId' = r.nextId
       /\ calls' = [calls EXCEPT ![c].rresp =
                      IF r.result = "ok" THEN Ok(r.access_token, NoToken)
                      ELSE Unauthorized(r.result)]
  /\ UNCHANGED <<now, storage, cookie, isRefreshing, failedQueue, h, location,
                 refreshCalls>>

\* the backend answers the POST /auth/refresh made for call c and rotates the
\* refresh token: the response carries a new refresh_token
RefreshReplyRotating(c) ==
  /\ Idle
  /\ calls[c].st = "refreshing"
  /\ calls[c].rresp = NoResp
  /\ LET r == refreshRotating(sessions, calls[c].rbody, nextId, now) IN
       /\ sessions' = r.sessions
       /\ nextId' = r.nextId
       /\ calls' = [calls EXCEPT ![c].rresp =
                      IF r.result = "ok" THEN Ok(r.access_token, r.refresh_token)
                      ELSE Unauthorized(r.result)]
  /\ UNCHANGED <<now, storage, cookie, isRefreshing, failedQueue, h, location,
                 refreshCalls>>

\* the refresh call made for call c fails for a reason that is not an
\* authentication failure
RefreshCallFails(c) ==
  /\ Idle
  /\ calls[c].st = "refreshing"
  /\ calls[c].rresp = NoResp
  /\ \E resp \in NonAuthFailures : calls' = [calls EXCEPT ![c].rresp = resp]
  /\ UNCHANGED <<serverVars, storage, cookie, isRefreshing, failedQueue, h,
                 location, refreshCalls>>

\* mutant: the refresh_token of the response is stored even when it is absent
RefreshSucceededStoresAbsent(c) ==
  /\ Idle
  /\ calls[c].st = "refreshing"
  /\ calls[c].rresp.status = 200
  /\ storage' = [storage EXCEPT
                   !.access_token = calls[c].rresp.access_token,
                   !.refresh_token = calls[c].rresp.refresh_token]
  /\ calls' = [calls EXCEPT ![c].st = "handling",
                            ![c].hdr = calls[c].rresp.access_token]
  /\ h' = [NoHandler EXCEPT !.pc = "process", !.c = c,
                            !.token = calls[c].rresp.access_token]
  /\ UNCHANGED <<serverVars, cookie, isRefreshing, failedQueue, location,
                 refreshCalls>>

\* api.ts:110-127, the refresh call succeeded: store the new tokens and put
\* the new access token on the original request
RefreshSucceeded(c) ==
  /\ Idle
  /\ calls[c].st = "refreshing"
  /\ calls[c].rresp.status = 200
  /\ storage' = [storage EXCEPT
                   !.access_token = calls[c].rresp.access_token,
                   !.refresh_token = IF calls[c].rresp.refresh_token # NoToken
                                     THEN calls[c].rresp.refresh_token
                                     ELSE storage.refresh_token]
  /\ calls' = [calls EXCEPT ![c].st = "handling",
                            ![c].hdr = calls[c].rresp.access_token]
  /\ h' = [NoHandler EXCEPT !.pc = "process", !.c = c,
                            !.token = calls[c].rresp.access_token]
  /\ UNCHANGED <<serverVars, cookie, isRefreshing, failedQueue, location,
                 refreshCalls>>

\* api.ts:130
ProcessQueueResolve ==
  /\ h.pc = "process"
  /\ calls' = processQueue(calls, failedQueue, FALSE, "")
  /\ failedQueue' = <<>>
  /\ h' = [h EXCEPT !.pc = "flag", !.flushed = failedQueue]
  /\ UNCHANGED <<serverVars, storage, cookie, isRefreshing, location, refreshCalls>>

\* mutant: the flag is left raised when the original request is retried
ClearFlagSkipped ==
  /\ h.pc = "flag"
  /\ h' = [h EXCEPT !.pc = "retry"]
  /\ UNCHANGED <<serverVars, storage, cookie, isRefreshing, failedQueue, calls,
                 location, refreshCalls>>

\* api.ts:131
ClearFlag ==
  /\ h.pc = "flag"
  /\ isRefreshing' = FALSE
  /\ h' = [h EXCEPT !.pc = "retry"]
  /\ UNCHANGED <<serverVars, storage, cookie, failedQueue, calls, location,
                 refreshCalls>>

\* api.ts:134, retry the original request
RetryOriginal ==
  /\ h.pc = "retry"
  /\ calls' = [calls EXCEPT ![h.c] = Dispatched(calls[h.c], storage, cookie)]
  /\ h' = IF h.flushed = <<>> THEN NoHandler ELSE [h EXCEPT !.pc = "replay"]
  /\ UNCHANGED <<serverVars, storage, cookie, isRefreshing, failedQueue, location,
                 refreshCalls>>

\* api.ts:88-93, the continuation of a queued call that was resolved with the
\* new token: set the header and dispatch the request again
ReplayQueued ==
  /\ h.pc = "replay"
  /\ LET q == Head(h.flushed) IN
       calls' = [calls EXCEPT ![q] =
                   Dispatched([calls[q] EXCEPT !.hdr = h.token], storage, cookie)]
  /\ h' = IF Tail(h.flushed) = <<>> THEN NoHandler
          ELSE [h EXCEPT !.flushed = Tail(h.flushed)]
  /\ UNCHANGED <<serverVars, storage, cookie, isRefreshing, failedQueue, location,
                 refreshCalls>>

\* the refresh call failed: its own response goes through the response
\* interceptor first (api.ts:72-80 for a 401, api.ts:157-164 otherwise), and
\* the Error thrown there is caught at api.ts:135
RefreshFailed(c) ==
  /\ Idle
  /\ calls[c].st = "refreshing"
  /\ calls[c].rresp.status \notin {-1, 200}
  /\ storage' = IF IsAuthFailure(calls[c].rresp) THEN ClearedStorage ELSE storage
  /\ calls' = [calls EXCEPT ![c].st = "handling"]
  /\ h' = [NoHandler EXCEPT !.pc = "catch", !.c = c,
                            !.err = ErrorMessage(calls[c].rresp)]
  /\ UNCHANGED <<serverVars, cookie, isRefreshing, failedQueue, location,
                 refreshCalls>>

\* mutant: the rejected continuations are left on the queue
ProcessQueueRejectKeepsQueue ==
  /\ h.pc = "catch"
  /\ calls' = processQueue(calls, failedQueue, TRUE, h.err)
  /\ failedQueue' = failedQueue
  /\ h' = [h EXCEPT !.pc = "fail", !.flushed = failedQueue]
  /\ UNCHANGED <<serverVars, storage, cookie, isRefreshing, location, refreshCalls>>

\* api.ts:137
ProcessQueueReject ==
  /\ h.pc = "catch"
  /\ calls' = processQueue(calls, failedQueue, TRUE, h.err)
  /\ failedQueue' = <<>>
  /\ h' = [h EXCEPT !.pc = "fail", !.flushed = failedQueue]
  /\ UNCHANGED <<serverVars, storage, cookie, isRefreshing, location, refreshCalls>>

\* String.prototype.includes on window.location.pathname, for a fragment that
\* is one path segment: a pathname is the sequence of its segments
\* ("/website/1" is <<"website", "1">>)
includes(path, segment) == \E i \in 1..Len(path) : path[i] = segment

\* mutant: only the login page counts as an authentication page
isAuthPageLoginOnly(path) == includes(path, "login")

\* api.ts:144-147
isAuthPage(path) ==
  \/ includes(path, "login")
  \/ includes(path, "signup")
  \/ includes(path, "forgot-password")
  \/ includes(path, "reset-password")

\* mutant: the flag is left raised when the refresh has failed
FailClosedKeepsFlag ==
  /\ h.pc = "fail"
  /\ isRefreshing' = isRefreshing
  /\ storage' = ClearedStorage
  /\ location' = IF isAuthPage(location.pathname) THEN location
                 ELSE [location EXCEPT !.href = "/login"]
  /\ calls' = [calls EXCEPT ![h.c].st = "done",
                 ![h.c].out = Settled(FALSE, MsgSessionExpired, calls[h.c].hdr)]
  /\ h' = NoHandler
  /\ UNCHANGED <<serverVars, cookie, failedQueue, refreshCalls>>

\* api.ts:138-153
FailClosed ==
  /\ h.pc = "fail"
  /\ isRefreshing' = FALSE
  /\ storage' = ClearedStorage
  /\ location' = IF isAuthPage(location.pathname) THEN location
                 ELSE [location EXCEPT !.href = "/login"]
  /\ calls' = [calls EXCEPT ![h.c].st = "done",
                 ![h.c].out = Settled(FALSE, MsgSessionExpired, calls[h.c].hdr)]
  /\ h' = NoHandler
  /\ UNCHANGED <<serverVars, cookie, failedQueue, refreshCalls>>

\* --------------------------------------------------------- environment
\* time passes
Tick ==
  /\ Idle
  /\ now < MaxTime
  /\ now' = now + 1
  /\ UNCHANGED <<sessions, nextId, storage, cookie, isRefreshing, failedQueue,
                 calls, h, location, refreshCalls>>

\* the same user logs in from another client (POST /auth/login)
LoginElsewhere(u) ==
  /\ Idle
  /\ Len(sessions) < MaxSessions
  /\ LET r == issueTokenPair(sessions, u, nextId, now) IN
       /\ sessions' = r.sessions
       /\ nextId' = r.nextId
  /\ UNCHANGED <<now, storage, cookie, isRefreshing, failedQueue, calls, h,
                 location, refreshCalls>>

\* --------------------------------------------------------- specification
NewCall == [url |-> "", via |-> "", st |-> "idle", retry |-> FALSE, hdr |-> NoToken,
            withCredentials |-> FALSE,
            resp |-> NoResp, n |-> 0, out |-> NoOut, rbody |-> NoToken,
            rresp |-> NoResp]

\* the user logged in at time 0 from this client
FirstLogin == issueTokenPair(<<>>, ClientUser, 1, 0)

Init ==
  /\ now = 0
  /\ sessions = FirstLogin.sessions
  /\ nextId = FirstLogin.nextId
  /\ storage = [access_token |-> FirstLogin.access_token,
                refresh_token |-> FirstLogin.refresh_token, user |-> ClientUser]
  /\ cookie = <<>>
  /\ isRefreshing = FALSE
  /\ failedQueue = <<>>
  /\ calls = [c \in Calls |-> NewCall]
  /\ h = NoHandler
  /\ location = [pathname |-> <<"dashboard">>, href |-> ""]
  /\ refreshCalls = 0

Handler ==
  \/ ProcessQueueResolve
  \/ ClearFlag
  \/ RetryOriginal
  \/ ReplayQueued
  \/ ProcessQueueReject
  \/ FailClosed

Next ==
  \/ \E c \in Calls : Issue(c, "/websites")
  \/ \E c \in Calls : ServerReply(c)
  \/ \E c \in Calls : CallFails(c)
  \/ \E c \in Calls : HandleSuccess(c)
  \/ \E c \in Calls : HandleOtherError(c)
  \/ \E c \in Calls : Enqueue(c)
  \/ \E c \in Calls : StartRefresh(c)
  \/ \E c \in Calls : RefreshReply(c)
  \/ \E c \in Calls : RefreshCallFails(c)
  \/ \E c \in Calls : RefreshSucceeded(c)
  \/ \E c \in Calls : RefreshFailed(c)
  \/ Handler
  \/ Tick
  \/ \E u \in Users : LoginElsewhere(u)

Spec == Init /\ [][Next]_vars

\* ------------------------------------------------ authAPI.refreshToken
\* api.ts:353-364, the manual refresh: read the refresh token and post
\* /auth/refresh through the same axios instance
ManualRefresh(c) ==
  /\ Idle
  /\ calls[c].st = "idle"
  /\ IF StoredRefreshToken = NoToken
     THEN /\ calls' = [calls EXCEPT ![c].via = "refreshToken", ![c].st = "done",
                         ![c].out = Settled(FALSE, MsgNoRefreshToken, NoToken)]
          /\ UNCHANGED refreshCalls
     ELSE /\ calls' = [calls EXCEPT ![c] =
                         Dispatched([calls[c] EXCEPT !.url = "/auth/refresh",
                                                     !.via = "refreshToken",
                                                     !.rbody = StoredRefreshToken],
                                    storage, cookie)]
          /\ refreshCalls' = refreshCalls + 1
  /\ UNCHANGED <<serverVars, storage, cookie, isRefreshing, failedQueue, h, location>>

\* the backend answers the POST /auth/refresh of a manual refresh
ManualRefreshReply(c) ==
  /\ Idle
  /\ calls[c].st = "sent"
  /\ calls[c].url = "/auth/refresh"
  /\ calls[c].resp = NoResp
  /\ LET r == refresh(sessions, calls[c].rbody, nextId, now) IN
       /\ sessions' = r.sessions
       /\ nextId' = r.nextId
       /\ calls' = [calls EXCEPT ![c].resp =
                      IF r.result = "ok" THEN Ok(r.access_token, NoToken)
                      ELSE Unauthorized(r.result)]
  /\ UNCHANGED <<now, storage, cookie, isRefreshing, failedQueue, h, location,
                 refreshCalls>>

\* api.ts:366-373, the manual refresh succeeded: store the tokens
ManualRefreshSucceeded(c) ==
  /\ Idle
  /\ calls[c].st = "sent"
  /\ calls[c].via = "refreshToken"
  /\ calls[c].resp.status = 200
  /\ storage' = IF calls[c].resp.access_token # NoToken
                THEN [storage EXCEPT
                        !.access_token = calls[c].resp.access_token,
                        !.refresh_token = IF calls[c].resp.refresh_token # NoToken
                                          THEN calls[c].resp.refresh_token
                                          ELSE storage.refresh_token]
                ELSE storage
  /\ calls' = [calls EXCEPT ![c].st = "done",
                            ![c].out = Settled(TRUE, "", calls[c].hdr)]
  /\ UNCHANGED <<serverVars, cookie, isRefreshing, failedQueue, h, location,
                 refreshCalls>>

NextAuthAPI ==
  \/ \E c \in Calls : Issue(c, "/websites")
  \/ \E c \in Calls : ManualRefresh(c)
  \/ \E c \in Calls : ServerReply(c)
  \/ \E c \in Calls : ManualRefreshReply(c)
  \/ \E c \in Calls : CallFails(c)
  \/ \E c \in Calls : HandleSuccess(c)
  \/ \E c \in Calls : ManualRefreshSucceeded(c)
  \/ \E c \in Calls : HandleOtherError(c)
  \/ \E c \in Calls : HandleExempt401(c)
  \/ \E c \in Calls : Enqueue(c)
  \/ \E c \in Calls : StartRefresh(c)
  \/ \E c \in Calls : RefreshReply(c)
  \/ \E c \in Calls : RefreshCallFails(c)
  \/ \E c \in Calls : RefreshSucceeded(c)
  \/ \E c \in Calls : RefreshFailed(c)
  \/ Handler
  \/ Tick
  \/ \E u \in Users : LoginElsewhere(u)

SpecAuthAPI == Init /\ [][NextAuthAPI]_vars

\* ------------------------------------------- the Session Store on its own
StoreUsers == 1..NUsers

\* the refresh tokens issued so far, and a forged one
Presentable(S) ==
  {RefreshToken(i, S[i].refresh_token_fingerprint[3]) : i \in 1..Len(S)}
  \cup {RefreshToken(1, 0)}

\* POST /auth/refresh by any holder of a refresh token
ServerRefresh(rt) ==
  /\ Idle
  /\ nextId < MaxIds
  /\ LET r == refresh(sessions, rt, nextId, now) IN
       /\ sessions' = r.sessions
       /\ nextId' = r.nextId
  /\ UNCHANGED <<now, storage, cookie, isRefreshing, failedQueue, calls, h,
                 location, refreshCalls>>

\* POST /auth/logout for a session
ServerLogout(sid) ==
  /\ Idle
  /\ sessions' = logout(sessions, sid)
  /\ UNCHANGED <<now, nextId, storage, cookie, isRefreshing, failedQueue, calls, h,
                 location, refreshCalls>>

NextStore ==
  \/ \E u \in StoreUsers : LoginElsewhere(u)
  \/ \E rt \in Presentable(sessions) : ServerRefresh(rt)
  \/ \E sid \in 1..Len(sessions) : ServerLogout(sid)
  \/ Tick

SpecStore == Init /\ [][NextStore]_vars

\* ---------------------------------------- burst of calls on an expired token
StaleStored == verifyAccessToken(sessions, storage.access_token, now) = "Expired"

\* a call made while the stored access token is already expired
IssueStale(c) == StaleStored /\ Issue(c, "/websites")

NextBurst ==
  \/ \E c \in Calls : IssueStale(c)
  \/ \E c \in Calls : ServerReply(c)
  \/ \E c \in Calls : HandleSuccess(c)
  \/ \E c \in Calls : HandleOtherError(c)
  \/ \E c \in Calls : Enqueue(c)
  \/ \E c \in Calls : StartRefresh(c)
  \/ \E c \in Calls : RefreshReply(c)
  \/ \E c \in Calls : RefreshSucceeded(c)
  \/ \E c \in Calls : RefreshFailed(c)
  \/ Handler
  \/ Tick

SpecBurst == Init /\ [][NextBurst]_vars

\* ------------------------- two refresh calls for one session on the server
\* the Token Issuer runs validateAndTouch for refresh call c, which presents
\* the refresh token of the first login, and on success mints the new access
\* token; rotateAccessToken is a later step
RaceValidate(c) ==
  /\ Idle
  /\ calls[c].st = "idle"
  /\ LET rt == FirstLogin.refresh_token
         r == validateResult(sessions, rt.session_id, Fingerprint(rt), now)
         S1 == validateAndTouch(sessions, rt.session_id, Fingerprint(rt), now)
     IN /\ sessions' = S1
        /\ IF r = "ok"
           THEN /\ nextId' = nextId + 1
                /\ calls' = [calls EXCEPT
                     ![c].url = "/auth/refresh", ![c].st = "minted", ![c].rbody = rt,
                     ![c].rresp = Ok(AccessToken(S1[rt.session_id].user_id,
                                                 rt.session_id, nextId, now), NoToken)]
           ELSE /\ nextId' = nextId
                /\ calls' = [calls EXCEPT
                     ![c].url = "/auth/refresh", ![c].st = "done", ![c].rbody = rt,
                     ![c].rresp = Unauthorized(r),
                     ![c].out = Settled(FALSE, r, NoToken)]
  /\ UNCHANGED <<now, storage, cookie, isRefreshing, failedQueue, h, location,
                 refreshCalls>>

\* the Token Issuer calls rotateAccessToken for refresh call c and returns the
\* access token to the caller
RaceRotate(c) ==
  /\ Idle
  /\ calls[c].st = "minted"
  /\ LET at == calls[c].rresp.access_token IN
       /\ sessions' = rotateAccessToken(sessions, at.session_id, at.token_id)
       /\ calls' = [calls EXCEPT ![c].st = "done", ![c].out = Settled(TRUE, "", at)]
  /\ UNCHANGED <<now, nextId, storage, cookie, isRefreshing, failedQueue, h,
                 location, refreshCalls>>

NextRace ==
  \/ \E c \in Calls : RaceValidate(c)
  \/ \E c \in Calls : RaceRotate(c)
  \/ \E u \in Users : LoginElsewhere(u)
  \/ ServerLogout(FirstLogin.refresh_token.session_id)
  \/ Tick

SpecRace == Init /\ [][NextRace]_vars

\* --------------------------- calls to the endpoints exempt from the refresh
\* the backend answers a call to the login, signup or landing-page-data
\* endpoint: the two auth endpoints refuse the credentials, the landing page
\* data is served or refused
PublicReply(c) ==
  /\ Idle
  /\ calls[c].st = "sent"
  /\ calls[c].via = ""
  /\ calls[c].url \in PublicUrls
  /\ calls[c].resp = NoResp
  /\ \E resp \in {Unauthorized("Invalid credentials"), Ok(NoToken, NoToken)} :
       /\ resp.status = 200 => calls[c].url = "/landing-page-data"
       /\ calls' = [calls EXCEPT ![c].resp = resp]
  /\ UNCHANGED <<serverVars, storage, cookie, isRefreshing, failedQueue, h,
                 location, refreshCalls>>

NextExempt ==
  \/ \E c \in Calls : \E url \in {"/websites", "/auth/login", "/auth/signup",
                                   "/landing-page-data"} : Issue(c, url)
  \/ \E c \in Calls : ManualRefresh(c)
  \/ \E c \in Calls : ServerReply(c)
  \/ \E c \in Calls : PublicReply(c)
  \/ \E c \in Calls : ManualRefreshReply(c)
  \/ \E c \in Calls : HandleSuccess(c)
  \/ \E c \in Calls : ManualRefreshSucceeded(c)
  \/ \E c \in Calls : HandleOtherError(c)
  \/ \E c \in Calls : HandleExempt401(c)
  \/ \E c \in Calls : Enqueue(c)
  \/ \E c \in Calls : StartRefresh(c)
  \/ \E c \in Calls : RefreshReply(c)
  \/ \E c \in Calls : RefreshSucceeded(c)
  \/ \E c \in Calls : RefreshFailed(c)
  \/ Handler
  \/ Tick

SpecExempt == Init /\ [][NextExempt]_vars

\* ----------------------------- credentials in localStorage and in the cookie
\* what document.cookie can hold: nothing, the two tokens of the login, or
\* another cookie followed by the access token alone
CookieJars ==
  {<<>>,
   <<[name |-> "access_token", value |-> FirstLogin.access_token],
     [name |-> "refresh_token", value |-> FirstLogin.refresh_token]>>,
   <<[name |-> "theme", value |-> NoToken],
     [name |-> "access_token", value |-> FirstLogin.access_token]>>}

\* the user logged in at time 0; localStorage holds the tokens or was cleared
InitAttach ==
  /\ now = 0
  /\ sessions = FirstLogin.sessions
  /\ nextId = FirstLogin.nextId
  /\ storage \in {[access_token |-> FirstLogin.access_token,
                   refresh_token |-> FirstLogin.refresh_token, user |-> ClientUser],
                  ClearedStorage}
  /\ cookie \in CookieJars
  /\ isRefreshing = FALSE
  /\ failedQueue = <<>>
  /\ calls = [c \in Calls |-> NewCall]
  /\ h = NoHandler
  /\ location = [pathname |-> <<"dashboard">>, href |-> ""]
  /\ refreshCalls = 0

NextAttach ==
  \/ \E c \in Calls : \E url \in {"/websites", "/auth/login"} : Issue(c, url)
  \/ \E c \in Calls : ManualRefresh(c)
  \/ \E c \in Calls : ServerReply(c)
  \/ \E c \in Calls : PublicReply(c)
  \/ \E c \in Calls : ManualRefreshReply(c)
  \/ \E c \in Calls : HandleSuccess(c)
  \/ \E c \in Calls : ManualRefreshSucceeded(c)
  \/ \E c \in Calls : HandleOtherError(c)
  \/ \E c \in Calls : HandleExempt401(c)
  \/ \E c \in Calls : Enqueue(c)
  \/ \E c \in Calls : StartRefresh(c)
  \/ \E c \in Calls : RefreshReply(c)
  \/ \E c \in Calls : RefreshSucceeded(c)
  \/ \E c \in Calls : RefreshFailed(c)
  \/ Handler
  \/ Tick

SpecAttach == InitAttach /\ [][NextAttach]_vars

\* ------------------------------------------------------- authAPI.logout
\* api.ts:314, authAPI.logout posts /auth/logout through the axios instance
Logout(c) ==
  /\ Idle
  /\ calls[c].st = "idle"
  /\ calls' = [calls EXCEPT ![c] =
                 Dispatched([calls[c] EXCEPT !.url = "/auth/logout", !.via = "logout"],
                            storage, cookie)]
  /\ UNCHANGED <<serverVars, storage, cookie, isRefreshing, failedQueue, h,
                 location, refreshCalls>>

\* the backend answers POST /auth/logout: it deactivates the session of a
\* caller whose access token verifies and refuses any other caller
LogoutReply(c) ==
  /\ Idle
  /\ calls[c].st = "sent"
  /\ calls[c].url = "/auth/logout"
  /\ calls[c].resp = NoResp
  /\ calls' = [calls EXCEPT ![c].resp = ApiReply(sessions, calls[c].hdr, now)]
  /\ sessions' = IF verifyAccessToken(sessions, calls[c].hdr, now) = "Claims"
                 THEN logout(sessions, calls[c].hdr.session_id)
                 ELSE sessions
  /\ UNCHANGED <<now, nextId, storage, cookie, isRefreshing, failedQueue, h,
                 location, refreshCalls>>

\* mutant: localStorage is cleared only when the logout call succeeded
LogoutFinallyOnSuccess(c) ==
  /\ Idle
  /\ calls[c].via = "logout"
  /\ calls[c].st = "done"
  /\ storage' = IF calls[c].out.ok THEN ClearedStorage ELSE storage
  /\ calls' = [calls EXCEPT ![c].st = "returned",
                            ![c].out = Settled(TRUE, "", calls[c].hdr)]
  /\ UNCHANGED <<serverVars, cookie, isRefreshing, failedQueue, h, location,
                 refreshCalls>>

\* api.ts:315-322, the promise of the post has settled: a rejection is caught
\* and logged, the finally block removes the three items and logout resolves
LogoutFinally(c) ==
  /\ Idle
  /\ calls[c].via = "logout"
  /\ calls[c].st = "done"
  /\ storage' = ClearedStorage
  /\ calls' = [calls EXCEPT ![c].st = "returned",
                            ![c].out = Settled(TRUE, "", calls[c].hdr)]
  /\ UNCHANGED <<serverVars, cookie, isRefreshing, failedQueue, h, location,
                 refreshCalls>>

NextLogout ==
  \/ \E c \in Calls : Issue(c, "/websites")
  \/ \E c \in Calls : Logout(c)
  \/ \E c \in Calls : ServerReply(c)
  \/ \E c \in Calls : LogoutReply(c)
  \/ \E c \in Calls : CallFails(c)
  \/ \E c \in Calls : HandleSuccess(c)
  \/ \E c \in Calls : HandleOtherError(c)
  \/ \E c \in Calls : Enqueue(c)
  \/ \E c \in Calls : StartRefresh(c)
  \/ \E c \in Calls : RefreshReply(c)
  \/ \E c \in Calls : RefreshCallFails(c)
  \/ \E c \in Calls : RefreshSucceeded(c)
  \/ \E c \in Calls : RefreshFailed(c)
  \/ \E c \in Calls : LogoutFinally(c)
  \/ Handler
  \/ Tick

SpecLogout == Init /\ [][NextLogout]_vars

\* ------------------------------------------- logout called during a refresh
\* authAPI.logout is called while the POST /auth/refresh of a call is in flight
LogoutDuringRefresh(c) ==
  /\ \E d \in Calls : calls[d].st = "refreshing"
  /\ Logout(c)

NextLogoutRace ==
  \/ \E c \in Calls : Issue(c, "/websites")
  \/ \E c \in Calls : LogoutDuringRefresh(c)
  \/ \E c \in Calls : ServerReply(c)
  \/ \E c \in Calls : LogoutReply(c)
  \/ \E c \in Calls : CallFails(c)
  \/ \E c \in Calls : HandleSuccess(c)
  \/ \E c \in Calls : HandleOtherError(c)
  \/ \E c \in Calls : LogoutFinally(c)
  \/ \E c \in Calls : Enqueue(c)
  \/ \E c \in Calls : StartRefresh(c)
  \/ \E c \in Calls : RefreshReply(c)
  \/ \E c \in Calls : RefreshCallFails(c)
  \/ \E c \in Calls : RefreshSucceeded(c)
  \/ \E c \in Calls : RefreshFailed(c)
  \/ Handler
  \/ Tick

SpecLogoutRace == Init /\ [][NextLogoutRace]_vars

\* ------------------------------------------- every dispatched call is answered
\* the steps that are not up to the user or the clock: the answer to a call
\* that is on the wire (a response or a transport error) and the handlers of
\* the response interceptor
Progress ==
  \/ \E c \in Calls : ServerReply(c) \/ CallFails(c)
  \/ \E c \in Calls : RefreshReply(c) \/ RefreshCallFails(c)
  \/ \E c \in Calls : HandleSuccess(c) \/ HandleOtherError(c)
  \/ \E c \in Calls : Enqueue(c) \/ StartRefresh(c)
  \/ \E c \in Calls : RefreshSucceeded(c) \/ RefreshFailed(c)
  \/ Handler

NextLive ==
  \/ \E c \in Calls : Issue(c, "/websites")
  \/ \E c \in Calls : ServerReply(c)
  \/ \E c \in Calls : CallFails(c)
  \/ \E c \in Calls : HandleSuccess(c)
  \/ \E c \in Calls : HandleOtherError(c)
  \/ \E c \in Calls : Enqueue(c)
  \/ \E c \in Calls : StartRefresh(c)
  \/ \E c \in Calls : RefreshReply(c)
  \/ \E c \in Calls : RefreshCallFails(c)
  \/ \E c \in Calls : RefreshSucceeded(c)
  \/ \E c \in Calls : RefreshFailed(c)
  \/ Handler
  \/ Tick

SpecLive == Init /\ [][NextLive]_vars /\ WF_vars(Progress)

\* ------------------------------------- the page the client is on at a failure
\* the routes of the application (frontend pages): "/", "/dashboard",
\* "/security", "/login", "/signup", "/forgot-password", "/reset-password"
\* and "/website/:websiteId"
Pathnames ==
  {<<>>, <<"dashboard">>, <<"security">>, <<"login">>, <<"signup">>,
   <<"forgot-password">>, <<"reset-password">>, <<"website", "1">>}

\* the client is on any page of the application when the calls are made
InitPages ==
  /\ now = 0
  /\ sessions = FirstLogin.sessions
  /\ nextId = FirstLogin.nextId
  /\ storage = [access_token |-> FirstLogin.access_token,
                refresh_token |-> FirstLogin.refresh_token, user |-> ClientUser]
  /\ cookie = <<>>
  /\ isRefreshing = FALSE
  /\ failedQueue = <<>>
  /\ calls = [c \in Calls |-> NewCall]
  /\ h = NoHandler
  /\ location \in [pathname : Pathnames, href : {""}]
  /\ refreshCalls = 0

NextPages ==
  \/ \E c \in Calls : IssueStale(c)
  \/ \E c \in Calls : ServerReply(c)
  \/ \E c \in Calls : HandleSuccess(c)
  \/ \E c \in Calls : HandleOtherError(c)
  \/ \E c \in Calls : Enqueue(c)
  \/ \E c \in Calls : StartRefresh(c)
  \/ \E c \in Calls : RefreshReply(c)
  \/ \E c \in Calls : RefreshCallFails(c)
  \/ \E c \in Calls : RefreshSucceeded(c)
  \/ \E c \in Calls : RefreshFailed(c)
  \/ Handler
  \/ Tick
  \/ \E u \in Users : LoginElsewhere(u)

SpecPages == InitPages /\ [][NextPages]_vars

\* ------------------------------------------- a backend that may rotate tokens
NextRotate ==
  \/ \E c \in Calls : Issue(c, "/websites")
  \/ \E c \in Calls : ServerReply(c)
  \/ \E c \in Calls : HandleSuccess(c)
  \/ \E c \in Calls : HandleOtherError(c)
  \/ \E c \in Calls : Enqueue(c)
  \/ \E c \in Calls : StartRefresh(c)
  \/ \E c \in Calls : RefreshReply(c)
  \/ \E c \in Calls : RefreshReplyRotating(c)
  \/ \E c \in Calls : RefreshSucceeded(c)
  \/ \E c \in Calls : RefreshFailed(c)
  \/ Handler
  \/ Tick

SpecRotate == Init /\ [][NextRotate]_vars

\* ------------------------------------------------------------------ claims
Rejected(c) == calls[c].st = "done" /\ calls[c].out.settled /\ ~calls[c].out.ok

\* a call whose queued continuation was rejected by processQueue: its 401 was
\* neither retried nor surfaced by the interceptor itself
QueueRejected(c) ==
  /\ Rejected(c)
  /\ calls[c].resp.status = 401
  /\ ~calls[c].retry

\* a call that started a refresh and was rejected because the refresh failed
InitiatorRejected(c) ==
  /\ Rejected(c)
  /\ calls[c].retry
  /\ calls[c].rresp.status # 200

\* the POST /auth/refresh calls of this client that are on the wire or whose
\* response has not been handled yet
InFlightRefresh ==
  {c \in Calls : calls[c].st = "refreshing"
                 \/ (calls[c].st = "sent" /\ calls[c].url = "/auth/refresh")}

\* C1: single-flight refresh. At most one POST /auth/refresh of a client
\* instance is in flight in any reachable state.
C1_SingleFlight == Cardinality(InFlightRefresh) <= 1

\* C2: N calls are dispatched while the stored access token is expired; exactly
\* one POST /auth/refresh is made in total and, the refresh having succeeded,
\* every call completes successfully with the refreshed token, none with the
\* stale one.
C2_ExactlyOneRefresh ==
  /\ refreshCalls <= 1
  /\ \A c \in Calls :
       (calls[c].st = "done" /\ storage.access_token # NoToken)
          => (calls[c].out.ok /\ calls[c].out.token # FirstLogin.access_token)

C3_FailClosedStep ==
  /\ (h.pc = "catch" /\ h'.pc # "catch") =>
        /\ \A i \in 1..Len(failedQueue) :
              /\ calls'[failedQueue[i]].st = "done"
              /\ calls'[failedQueue[i]].out.settled
              /\ ~calls'[failedQueue[i]].out.ok
        /\ failedQueue' = <<>>
  /\ (h.pc = "fail" /\ h'.pc # "fail") =>
        /\ h'.pc = "idle"
        /\ storage'.access_token = NoToken
        /\ storage'.refresh_token = NoToken
        /\ storage'.user = 0
        /\ isRefreshing' = FALSE
        /\ failedQueue' = <<>>
        /\ calls'[h.c].st = "done" /\ ~calls'[h.c].out.ok
        /\ \A c \in Calls : calls'[c].st \notin {"queued", "resolved", "handling"}

\* C3: a failed refresh fails closed. processQueue rejects every continuation
\* that is on the queue, and when the failure has been handled the stored
\* access_token, refresh_token and user are absent, isRefreshing is false, the
\* queue is empty and no call is left queued or resolved.
C3_FailClosed == [][C3_FailClosedStep]_vars

\* C3 witness: a refresh has failed with a call queued behind it, and the
\* failure has been handled
C3_Witness ==
  /\ Idle
  /\ \E c \in Calls : InitiatorRejected(c)
  /\ \E c \in Calls : QueueRejected(c)
  /\ storage.refresh_token = NoToken
  /\ ~isRefreshing

C4_RetriedCallSurfacedStep ==
  \A c \in Calls :
    (calls[c].st = "sent" /\ calls[c].n >= 2 /\ calls[c].resp.status = 401
       /\ calls'[c] # calls[c])
    => /\ calls'[c].st = "done"
       /\ ~calls'[c].out.ok
       /\ UNCHANGED <<isRefreshing, failedQueue, refreshCalls>>

\* C4: exactly one retry after a refresh per original call. A call that has
\* been dispatched again and receives 401 is surfaced as an error; it starts
\* no refresh, is not enqueued and is not dispatched again.
C4_RetriedCallSurfaced == [][C4_RetriedCallSurfacedStep]_vars

\* C5: a call that was queued behind a refresh is replayed at most once. Once a
\* call has been dispatched a second time it is never queued, never starts a
\* refresh, and is never dispatched a third time.
C5_ReplayedAtMostOnce ==
  \A c \in Calls :
    /\ calls[c].n <= 2
    /\ calls[c].n >= 2 => calls[c].st \in {"sent", "done"}

C6_NonAuthFrameStep ==
  \A c \in Calls :
    (calls[c].st = "sent" /\ calls[c].resp.status \notin {-1, 200, 401}
       /\ calls'[c] # calls[c])
    => /\ calls'[c].st = "done"
       /\ calls'[c].out.settled /\ ~calls'[c].out.ok
       /\ calls'[c].n = calls[c].n
       /\ UNCHANGED <<isRefreshing, failedQueue, storage, refreshCalls, h>>

\* C6: handling a failure that is not a 401 (another status, or no response)
\* surfaces the error at once and leaves isRefreshing, the queue and the stored
\* credentials unchanged; no refresh is started.
C6_NonAuthFrame == [][C6_NonAuthFrameStep]_vars

\* C6 witness: a call has failed with a non-authentication error while a
\* refresh was in flight, and was surfaced
C6_Witness ==
  \E c \in Calls :
    /\ Rejected(c)
    /\ calls[c].resp.status \in {500, 0}
    /\ isRefreshing

C7_OrderedSuccessStep ==
  LET new == calls[h.c].rresp.access_token IN
  /\ (h.pc = "process" /\ h' # h) =>
        /\ storage.access_token = new
        /\ calls[h.c].st = "handling"
        /\ \A i \in 1..Len(failedQueue) :
              /\ calls[failedQueue[i]].st = "queued"
              /\ calls'[failedQueue[i]].st = "resolved"
        /\ failedQueue' = <<>>
  /\ (h.pc = "retry" /\ h' # h) =>
        /\ storage.access_token = new
        /\ isRefreshing = FALSE
        /\ failedQueue = <<>>
        /\ calls[h.c].n + 1 = calls'[h.c].n
        /\ calls'[h.c].st = "sent"
        /\ calls'[h.c].hdr = new
  /\ (h.pc = "replay" /\ h' # h) =>
        /\ storage.access_token = new
        /\ \A c \in Calls :
              (calls[c].st = "resolved" /\ calls'[c] # calls[c])
                 => (calls'[c].st = "sent" /\ calls'[c].hdr = new)
  /\ (h.pc \in {"retry", "replay"} /\ h'.pc = "idle") =>
        /\ isRefreshing' = FALSE
        /\ \A c \in Calls : calls'[c].st # "resolved"

\* C7: on refresh success the new access token is in storage before any call
\* of the batch is dispatched again, every queued continuation is resolved and
\* replayed with the new token, isRefreshing is false and the queue empty
\* before the original call is dispatched again, and isRefreshing is false
\* after the batch.
C7_OrderedSuccess == [][C7_OrderedSuccessStep]_vars

\* C7 witness: a refresh succeeded with a call queued behind it; the original
\* call is on the wire again with the new token and the queued call is about
\* to be replayed
C7_Witness ==
  /\ h.pc = "replay"
  /\ calls[h.c].st = "sent" /\ calls[h.c].n = 2
  /\ calls[h.c].hdr = calls[h.c].rresp.access_token
  /\ \E c \in Calls : calls[c].st = "resolved"
  /\ ~isRefreshing

\* C8: when the refresh call fails, every blocked call rejects with the
\* "session expired" error: the call that started the refresh and each call
\* that was queued behind it.
C8_AllRejectSessionExpired ==
  \A c \in Calls :
    (InitiatorRejected(c) \/ QueueRejected(c)) => calls[c].out.msg = MsgSessionExpired

\* C9: single login. Every user has at most one session with is_active = TRUE
\* in every reachable state of the Session Store.
C9_SingleLogin ==
  \A u \in StoreUsers : Cardinality(ActiveOf(sessions, u)) <= 1

\* C9 witness: a user has logged in a second time; the earlier session of that
\* user is inactive and the new one is active
C9_Witness ==
  \E i, j \in 1..Len(sessions) :
    /\ i < j
    /\ sessions[i].user_id = sessions[j].user_id
    /\ ~sessions[i].is_active
    /\ sessions[j].is_active

\* a later session of the same user exists
Superseded(S, rt) ==
  /\ rt.session_id \in 1..Len(S)
  /\ \E j \in 1..Len(S) :
        j > rt.session_id /\ S[j].user_id = S[rt.session_id].user_id

C10_SupersededRefreshFailsStep ==
  \A c \in Calls :
    (calls[c].st = "refreshing" /\ calls[c].rresp = NoResp
       /\ calls'[c].rresp # NoResp /\ Superseded(sessions, calls[c].rbody))
    => calls'[c].rresp.status \in {401, 500, 0}

\* C10: once the same user has logged in from a second client, a refresh call
\* that presents the first client's stored refresh token never succeeds.
C10_SupersededRefreshFails == [][C10_SupersededRefreshFailsStep]_vars

\* C10 witness: the first client's refresh was answered 401 after the second
\* login, while its session had not yet reached expires_at
C10_Witness ==
  \E c \in Calls :
    /\ calls[c].rresp.status = 401
    /\ calls[c].rresp.detail = "SessionInvalid"
    /\ Superseded(sessions, calls[c].rbody)
    /\ now < sessions[calls[c].rbody.session_id].expires_at

\* the access token a session currently stands for: minted with the session's
\* active_access_token_id at the time the session was created or last refreshed
CurrentAccessToken(S, sid) ==
  AccessToken(S[sid].user_id, sid, S[sid].active_access_token_id,
              S[sid].last_activity_at)

\* a step of the Token Issuer in which a refresh succeeded (a login takes two
\* identifiers and adds a session)
RefreshSucceededStep == nextId' = nextId + 1 /\ Len(sessions') = Len(sessions)

C11_PredecessorRevokedStep ==
  RefreshSucceededStep =>
    \E s \in 1..Len(sessions) :
      /\ sessions'[s].active_access_token_id # sessions[s].active_access_token_id
      /\ verifyAccessToken(sessions', CurrentAccessToken(sessions, s), now')
           = "Revoked"

C11_PredecessorFailsStep ==
  RefreshSucceededStep =>
    \E s \in 1..Len(sessions) :
      LET p == CurrentAccessToken(sessions, s) IN
      /\ sessions'[s].active_access_token_id # sessions[s].active_access_token_id
      /\ \A s2 \in 1..Len(sessions) :
            sessions'[s].active_access_token_id # sessions[s2].active_access_token_id
      /\ verifyAccessToken(sessions', p, now')
           = IF now' >= p.expires_at THEN "Expired" ELSE "Revoked"

SessionRefreshToken(S, sid) ==
  RefreshToken(sid, S[sid].refresh_token_fingerprint[3])

\* a step in which POST /auth/logout deactivated session sid: an active session
\* that has not reached expires_at becomes inactive and no session is added
LogoutStep(sid) ==
  /\ Len(sessions') = Len(sessions)
  /\ sessions[sid].is_active /\ ~sessions'[sid].is_active
  /\ now < sessions[sid].expires_at

C12_LogoutInvalidatesStep ==
  \A s \in 1..Len(sessions) :
    LogoutStep(s) =>
      /\ verifyAccessToken(sessions', CurrentAccessToken(sessions, s), now') # "Claims"
      /\ refresh(sessions', SessionRefreshToken(sessions, s), nextId', now').result
           # "ok"

C12_LogoutStopsRefreshStep ==
  /\ \A s \in 1..Len(sessions) :
       LogoutStep(s) =>
         LET p == CurrentAccessToken(sessions, s) IN
         verifyAccessToken(sessions', p, now')
           = IF now' >= p.expires_at THEN "Expired" ELSE "Claims"
  /\ \A s \in 1..Len(sessions') :
       ~sessions'[s].is_active =>
         /\ refresh(sessions', SessionRefreshToken(sessions', s), nextId', now').result
              \in {"SessionInvalid", "SessionExpired", "RefreshMismatch"}
         /\ verifyAccessToken(sessions', CurrentAccessToken(sessions', s), now')
              = IF now' >= CurrentAccessToken(sessions', s).expires_at
                THEN "Expired" ELSE "Claims"

RaceHolders == {c \in Calls : calls[c].st = "done" /\ calls[c].out.ok}

\* C13: two refresh calls for the same session run concurrently on the server.
\* In every interleaving of their validateAndTouch and rotateAccessToken steps,
\* once both calls have returned, exactly one of the callers that were given an
\* access token holds one that verifies (as long as the tokens have not reached
\* expires_at): never both and never neither.
C13_ExactlyOneHolder ==
  (/\ \A c \in Calls : calls[c].st = "done"
   /\ RaceHolders # {}
   /\ \A c \in RaceHolders : now < calls[c].out.token.expires_at)
  => Cardinality({c \in RaceHolders :
                    verifyAccessToken(sessions, calls[c].out.token, now) = "Claims"})
       = 1

\* C13 witness: both refresh calls validated before either rotated, both
\* returned a token, and the token of one is answered Revoked while the other
\* verifies
C13_Witness ==
  /\ RaceHolders = Calls
  /\ \A c \in Calls : calls[c].out.token.issued_at = 0 /\ now = 0
  /\ sessions[1].active_access_token_id # nextId - 1
  /\ \E c, d \in Calls :
       /\ verifyAccessToken(sessions, calls[c].out.token, now) = "Claims"
       /\ verifyAccessToken(sessions, calls[d].out.token, now) = "Revoked"

\* every access token that can have been minted for session sid so far, by
\* token_id and time of issue
MintedFor(S, sid, ids, t) ==
  {AccessToken(S[sid].user_id, sid, tid, ti) : tid \in 1..ids, ti \in 0..t}

C14_OneVerifiesStep ==
  /\ \A s \in 1..Len(sessions') :
       Cardinality({at.token_id : at \in
                      {m \in MintedFor(sessions', s, nextId', now') :
                         verifyAccessToken(sessions', m, now') = "Claims"}}) <= 1
  /\ \A s \in 1..Len(sessions) :
       (/\ Len(sessions') = Len(sessions)
        /\ sessions'[s].active_access_token_id # sessions[s].active_access_token_id)
       => \A m \in MintedFor(sessions', s, nextId', now') :
            m.token_id # sessions'[s].active_access_token_id
              => verifyAccessToken(sessions', m, now') \in {"Revoked", "Expired"}

\* C14: at most one access token per session verifies at any time: in every
\* state the tokens of a session that verify carry one token_id, and as soon
\* as rotateAccessToken has written a new active_access_token_id every token of
\* that session with another (earlier) token_id fails verification.
C14_OneVerifies == [][C14_OneVerifiesStep]_vars

\* C14 witness: rotateAccessToken has written the token_id of a refreshed
\* token; that token verifies and the unexpired token of the login does not
C14_Witness ==
  \E c \in Calls :
    /\ calls[c].st = "done" /\ calls[c].out.ok
    /\ verifyAccessToken(sessions, calls[c].out.token, now) = "Claims"
    /\ now < FirstLogin.access_token.expires_at
    /\ verifyAccessToken(sessions, FirstLogin.access_token, now) = "Revoked"
    /\ \E d \in Calls : calls[d].st = "minted"

C15_ExemptNeverRefreshesStep ==
  /\ \A c \in Calls :
       (/\ calls[c].st = "sent"
        /\ calls[c].url \in {"/auth/login", "/auth/signup", "/auth/refresh",
                             "/landing-page-data"}
        /\ calls[c].resp.status = 401
        /\ calls'[c] # calls[c])
       => /\ calls'[c].st = "done"
          /\ calls'[c].out = Settled(FALSE, ErrorMessage(calls[c].resp), calls[c].hdr)
          /\ calls'[c].n = 1
          /\ UNCHANGED <<isRefreshing, failedQueue, refreshCalls, h>>
  /\ \A c \in Calls :
       (calls[c].st = "refreshing" /\ calls[c].rresp.status = 401
          /\ calls'[c] # calls[c])
       => /\ calls'[c].st = "handling"
          /\ h'.pc = "catch" /\ h'.err = ErrorMessage(calls[c].rresp)
          /\ UNCHANGED <<failedQueue, refreshCalls>>

\* C15: a 401 on a call to the login, signup or refresh endpoint or to the
\* landing-page-data endpoint never starts a refresh and is never enqueued,
\* also while another refresh is in flight: the call is settled at once with
\* the error of the response. The 401 of the interceptor's own refresh call is
\* thrown to the catch block and starts no further refresh either.
C15_ExemptNeverRefreshes == [][C15_ExemptNeverRefreshesStep]_vars

\* C15 witness: the login endpoint answered 401 and the call was rejected while
\* the refresh started by another call was in flight
C15_Witness ==
  \E c, d \in Calls :
    /\ calls[c].url = "/auth/login"
    /\ Rejected(c) /\ calls[c].resp.status = 401
    /\ calls[c].out.msg = "Invalid credentials"
    /\ calls[d].st = "refreshing"
    /\ isRefreshing

C16_BearerAttachedStep ==
  \A c \in Calls :
    calls'[c].n = calls[c].n + 1
    => /\ calls'[c].st = "sent"
       /\ calls'[c].withCredentials
       /\ calls'[c].hdr =
            IF storage.access_token # NoToken THEN storage.access_token
            ELSE IF \E i \in 1..Len(cookie) :
                      cookie[i].name = "access_token" /\ cookie[i].value # NoToken
                 THEN FirstLogin.access_token
                 ELSE NoToken

C17_LogoutClearsStep ==
  \A c \in Calls :
    (calls[c].via = "logout" /\ calls[c].st # "returned" /\ calls'[c].st = "returned")
    => /\ storage'.access_token = NoToken
       /\ storage'.refresh_token = NoToken
       /\ storage'.user = 0
       /\ calls'[c].out.settled /\ calls'[c].out.ok

\* C17: when authAPI.logout settles, localStorage holds no access_token, no
\* refresh_token and no user, whether the POST /auth/logout succeeded, was
\* refused (also after a refresh and a retry) or got no response, and logout
\* resolves: it never rejects to its caller.
C17_LogoutClears == [][C17_LogoutClearsStep]_vars

\* C17 witness: the POST /auth/logout got no response, logout has resolved,
\* localStorage is empty and the session is still active on the server
C17_Witness ==
  \E c \in Calls :
    /\ calls[c].via = "logout" /\ calls[c].st = "returned"
    /\ calls[c].resp.status = 0
    /\ calls[c].out.ok
    /\ storage.refresh_token = NoToken
    /\ sessions[1].is_active

\* Succeeded, Failed-NonAuth or Rejected
Terminal(c) == calls[c].st = "done" /\ calls[c].out.settled

FailureKinds == {"SessionInvalid", "SessionExpired", "RefreshMismatch"}

\* C19: the outcome of a failed refresh that the client shows does not depend
\* on which of SessionInvalid, SessionExpired or RefreshMismatch caused it: no
\* call that was blocked behind a refresh answered 401, the call that started
\* it or a call queued behind it, is rejected with an error that carries the
\* failure kind the server named.
C19_KindNotVisible ==
  \A c \in Calls :
    (/\ InitiatorRejected(c) \/ QueueRejected(c)
     /\ \E d \in Calls : InitiatorRejected(d) /\ calls[d].rresp.status = 401
                         /\ calls[d].rresp.detail \in FailureKinds)
    => calls[c].out.msg \notin FailureKinds

\* the session ids and fingerprints that can be presented to validateAndTouch:
\* every session and an unknown id, the fingerprint of every refresh token
\* issued so far and of a forged one
PresentableIds(S) == 1..(Len(S) + 1)
PresentableFingerprints(S) == {Fingerprint(rt) : rt \in Presentable(S)}

\* C20: validateAndTouch returns the session exactly when the session is
\* active, unexpired and the presented fingerprint equals
\* refresh_token_fingerprint, and otherwise one of SessionInvalid,
\* SessionExpired or RefreshMismatch; last_activity_at is written on success
\* and on no failure.
C20_ValidateAndTouch ==
  \A sid \in PresentableIds(sessions) : \A fp \in PresentableFingerprints(sessions) :
    LET r == validateResult(sessions, sid, fp, now)
        S1 == validateAndTouch(sessions, sid, fp, now)
        good == /\ sid \in 1..Len(sessions)
                /\ sessions[sid].is_active
                /\ now < sessions[sid].expires_at
                /\ sessions[sid].refresh_token_fingerprint = fp
    IN /\ (r = "ok") <=> good
       /\ ~good => r \in {"SessionInvalid", "SessionExpired", "RefreshMismatch"}
       /\ good => S1[sid].last_activity_at = now
       /\ Len(S1) = Len(sessions)
       /\ \A i \in 1..Len(sessions) :
            (~good \/ i # sid) => S1[i].last_activity_at = sessions[i].last_activity_at

\* C20 witness: a refresh has touched a session at a later time, and in the
\* same state presentations succeed and fail in each of the three ways, one of
\* the failures on a session whose last_activity_at lies in the past
C20_Witness ==
  /\ \E s \in 1..Len(sessions) :
       /\ sessions[s].last_activity_at > sessions[s].created_at
       /\ sessions[s].is_active
  /\ \A k \in {"SessionInvalid", "SessionExpired", "RefreshMismatch", "ok"} :
       \E sid \in PresentableIds(sessions) : \E fp \in PresentableFingerprints(sessions) :
         validateResult(sessions, sid, fp, now) = k
  /\ \E sid \in 1..Len(sessions) : \E fp \in PresentableFingerprints(sessions) :
       /\ validateResult(sessions, sid, fp, now) # "ok"
       /\ now > sessions[sid].last_activity_at

\* C21: deactivate is idempotent. Applied twice, or to a session that is
\* already inactive, it yields the same store as applied once; it sets
\* is_active = FALSE for the session, never reactivates a session and changes
\* no other session and no other field.
C21_DeactivateIdempotent ==
  \A sid \in PresentableIds(sessions) :
    LET S1 == deactivate(sessions, sid) IN
    /\ deactivate(S1, sid) = S1
    /\ Len(S1) = Len(sessions)
    /\ (sid \in 1..Len(sessions) /\ ~sessions[sid].is_active) => S1 = sessions
    /\ sid \in 1..Len(sessions) =>
         S1[sid] = [sessions[sid] EXCEPT !.is_active = FALSE]
    /\ \A i \in 1..Len(sessions) :
         /\ i # sid => S1[i] = sessions[i]
         /\ ~sessions[i].is_active => ~S1[i].is_active

\* C21 witness: one session has been logged out and is inactive while another
\* session is active, so that deactivate meets an inactive session, an active
\* one and a bystander
C21_Witness ==
  \E i, j \in 1..Len(sessions) :
    /\ ~sessions[i].is_active /\ now < sessions[i].expires_at
    /\ ~Superseded(sessions, SessionRefreshToken(sessions, i))
    /\ sessions[j].is_active
    /\ deactivate(sessions, i) = sessions
    /\ deactivate(sessions, j) # sessions

C22_ExemptStorageStep ==
  /\ \A c \in Calls :
       (calls[c].st = "sent" /\ calls[c].resp.status = 401 /\ calls'[c] # calls[c])
       => /\ calls[c].url \in {"/auth/login", "/auth/signup", "/auth/refresh"}
             => /\ storage'.access_token = NoToken
                /\ storage'.refresh_token = NoToken
                /\ storage'.user = 0
          /\ calls[c].url = "/landing-page-data" => storage' = storage
  /\ \A c \in Calls :
       (calls[c].st = "refreshing" /\ calls[c].rresp.status = 401
          /\ calls'[c] # calls[c])
       => /\ storage'.access_token = NoToken
          /\ storage'.refresh_token = NoToken
          /\ storage'.user = 0

\* C22: handling a 401 from the login, signup or refresh endpoint (the
\* interceptor's own refresh call included) removes the stored access_token,
\* refresh_token and user; handling a 401 from the landing-page-data endpoint
\* leaves localStorage unchanged.
C22_ExemptStorage == [][C22_ExemptStorageStep]_vars

\* C22 witness: the landing-page-data call was rejected with its 401 and the
\* stored credentials are still there, while the 401 of a login call is about
\* to be handled
C22_Witness ==
  \E c, d \in Calls :
    /\ calls[c].url = "/landing-page-data"
    /\ Rejected(c) /\ calls[c].resp.status = 401
    /\ storage.access_token # NoToken /\ storage.refresh_token # NoToken
    /\ storage.user = ClientUser
    /\ calls[d].url = "/auth/login" /\ calls[d].st = "sent"
    /\ calls[d].resp.status = 401

\* the login, signup, forgot-password and reset-password pages
AuthPages == {<<"login">>, <<"signup">>, <<"forgot-password">>, <<"reset-password">>}

C23_RedirectUnlessAuthPageStep ==
  (h.pc = "fail" /\ h'.pc # "fail") =>
     /\ (location'.href = "/login") <=> (location.pathname \notin AuthPages)
     /\ location'.pathname = location.pathname
     /\ calls'[h.c].st = "done"
     /\ calls'[h.c].out = Settled(FALSE, MsgSessionExpired, calls'[h.c].out.token)

C24_RefreshStoresStep ==
  \A c \in Calls :
    (calls[c].st = "refreshing" /\ calls[c].rresp.status = 200
       /\ calls'[c].st # "refreshing") =>
      /\ storage'.access_token = calls[c].rresp.access_token
      /\ storage'.access_token # NoToken
      /\ storage'.user = storage.user
      /\ storage'.refresh_token =
            IF calls[c].rresp.refresh_token = NoToken
            THEN storage.refresh_token
            ELSE calls[c].rresp.refresh_token

\* C24: when a successful refresh response is handled, the stored access
\* token becomes the one of the response; the stored refresh token is left as
\* it was if the response carries no refresh token, and becomes the one of the
\* response if it carries one.
C24_RefreshStores == [][C24_RefreshStoresStep]_vars

\* C24 witness: two refreshes have succeeded and been handled, one whose
\* response carried no refresh token and one whose response carried a new one
C24_Witness ==
  /\ Idle
  /\ \E c, d \in Calls :
       /\ calls[c].st # "refreshing" /\ calls[c].rresp.status = 200
       /\ calls[c].rresp.refresh_token = NoToken
       /\ calls[d].st # "refreshing" /\ calls[d].rresp.status = 200
       /\ calls[d].rresp.refresh_token # NoToken
       /\ storage.access_token \in {calls[c].rresp.access_token,
                                     calls[d].rresp.access_token}

\* C25: in every reachable state, isRefreshing = false implies that
\* failedQueue is empty: a continuation is on the queue only while a refresh is
\* in progress.
C25_QueueOnlyWhileRefreshing == ~isRefreshing => failedQueue = <<>>

\* C25 witness: the flag is down again, the queue is empty, and calls that
\* were on the queue have been settled
C25_Witness ==
  /\ Idle
  /\ ~isRefreshing
  /\ failedQueue = <<>>
  /\ \E c \in Calls : QueueRejected(c)
  /\ \E c \in Calls : InitiatorRejected(c)

\* the calls whose refresh is in flight or is being settled by processQueue
Initiators ==
  {i \in Calls : \/ calls[i].st = "refreshing"
                  \/ (calls[i].st = "handling" /\ h.c = i
                        /\ h.pc \in {"process", "catch"})}

\* the positions of call c on the pending queue
QueuePositions(c) == {i \in 1..Len(failedQueue) : failedQueue[i] = c}

C26_QueuedSettledOnceStep ==
  \* a queued call is on the queue once, behind exactly one refresh
  /\ \A c \in Calls :
        Cardinality(QueuePositions(c)) = IF calls[c].st = "queued" THEN 1 ELSE 0
  /\ failedQueue # <<>> => Cardinality(Initiators) = 1
  \* the refresh a call is queued behind does not change while it is queued
  /\ \A c \in Calls :
        (calls[c].st = "queued" /\ calls'[c].st = "queued") =>
           /\ Initiators' = Initiators
           /\ QueuePositions(c) # {} /\ failedQueue'[CHOOSE i \in QueuePositions(c) : TRUE] = c
  \* it leaves the queue when that refresh is settled, with its outcome
  /\ \A c \in Calls :
        (calls[c].st = "queued" /\ calls'[c].st # "queued") =>
           /\ h.pc \in {"process", "catch"}
           /\ Initiators = {h.c}
           /\ failedQueue' = <<>>
           /\ IF calls[h.c].rresp.status = 200
              THEN h.pc = "process" /\ calls'[c].st = "resolved"
              ELSE /\ h.pc = "catch"
                   /\ calls'[c].st = "done"
                   /\ calls'[c].out.settled /\ ~calls'[c].out.ok
  \* and is not settled again: a rejected call stays as it is, a resolved one
  \* is dispatched once more and nothing else
  /\ \A c \in Calls :
        calls[c].st = "done" => calls'[c] = calls[c]
  /\ \A c \in Calls :
        (calls[c].st = "resolved" /\ calls'[c] # calls[c]) =>
           calls'[c].st = "sent" /\ calls'[c].n = calls[c].n + 1

Retried == {c \in Calls : calls[c].retry}

C27_OneRefreshPerCallStep ==
  /\ \A c \in Calls : calls[c].retry => calls'[c].retry
  /\ refreshCalls' # refreshCalls =>
        /\ refreshCalls' = refreshCalls + 1
        /\ \E c \in Calls :
              /\ ~calls[c].retry /\ calls'[c].retry
              /\ calls'[c].st = "refreshing"
              /\ \A d \in Calls \ {c} : calls'[d] = calls[d]

\* C27: a POST /auth/refresh of the interceptor is made by a call that has made
\* none before and is marked as retried for good, so the interceptor never
\* makes more refresh calls than there are calls that started one, and at most
\* as many as there are original calls.
C27_OneRefreshPerCall ==
  /\ [](refreshCalls <= Cardinality(Retried) /\ refreshCalls <= NCalls)
  /\ [][C27_OneRefreshPerCallStep]_vars

\* C27 witness: every original call has started a refresh of its own
C27_Witness ==
  /\ Idle
  /\ refreshCalls = NCalls
  /\ \A c \in Calls : calls[c].retry /\ calls[c].st = "done"

\* neither localStorage nor document.cookie holds a refresh token
NoRefreshTokenAnywhere ==
  /\ storage.refresh_token = NoToken
  /\ \A i \in 1..Len(cookie) : cookie[i].name # "refresh_token"

C28_NoRefreshTokenStep ==
  \* the flag is raised for a 401 and no refresh token is found
  /\ (~isRefreshing /\ isRefreshing' /\ NoRefreshTokenAnywhere) =>
        /\ refreshCalls' = refreshCalls
        /\ \A c \in Calls : calls'[c].st # "refreshing" /\ calls'[c].n = calls[c].n
        /\ h'.pc = "catch" /\ h'.err = MsgNoRefreshToken
        /\ calls[h'.c].resp.status = 401 /\ calls'[h'.c].retry
  \* what follows is what follows a failed refresh
  /\ (h.pc \in {"catch", "fail"} /\ h.err = MsgNoRefreshToken) =>
        /\ refreshCalls' = refreshCalls
        /\ \A c \in Calls : calls'[c].st # "refreshing" /\ calls'[c].n = calls[c].n
        /\ h'.pc \in {"fail", "idle"}
        /\ h'.pc = "idle" =>
              /\ storage'.access_token = NoToken
              /\ storage'.refresh_token = NoToken
              /\ storage'.user = 0
              /\ ~isRefreshing'
              /\ failedQueue' = <<>>
              /\ calls'[h.c].st = "done"
              /\ calls'[h.c].out.settled /\ ~calls'[h.c].out.ok
              /\ calls'[h.c].out.msg = MsgSessionExpired
              /\ calls'[h.c].rresp = NoResp

\* C28: when a 401 starts the refresh path and neither localStorage nor a
\* cookie holds a refresh token, no POST /auth/refresh is made and no request
\* is dispatched; the handling ends with access_token, refresh_token and user
\* removed, isRefreshing false, the queue empty and the call rejected with
\* "Session expired. Please login again.".
C28_NoRefreshToken == [][C28_NoRefreshTokenStep]_vars

\* C28 witness: a call got a 401 with no refresh token to be found and was
\* rejected without any refresh call having been made
C28_Witness ==
  /\ Idle
  /\ refreshCalls = 0
  /\ ~isRefreshing /\ failedQueue = <<>>
  /\ storage.access_token = NoToken
  /\ location.href = "/login"
  /\ \E c \in Calls :
       /\ Rejected(c) /\ calls[c].retry
       /\ calls[c].resp.status = 401
       /\ calls[c].rresp = NoResp
       /\ calls[c].out.msg = MsgSessionExpired

\* authAPI.logout has settled
LogoutSettled == \E c \in Calls : calls[c].via = "logout" /\ calls[c].st = "returned"

\* C29: authAPI.logout was called while a refresh was in flight; once it has
\* settled, localStorage holds no access_token, whenever the refresh completes
\* (this client does not log in again).
C29_NoTokenAfterLogout == LogoutSettled => storage.access_token = NoToken

C30_SecondUnauthorizedStep ==
  \A c \in Calls :
    (calls[c].st = "sent" /\ calls[c].n >= 2 /\ calls[c].resp.status = 401
       /\ calls'[c] # calls[c]) =>
      /\ storage' = storage
      /\ isRefreshing' = isRefreshing
      /\ failedQueue' = failedQueue
      /\ location' = location
      /\ refreshCalls' = refreshCalls
      /\ calls'[c].st = "done"
      /\ calls'[c].out.settled /\ ~calls'[c].out.ok

\* C30: when a call that was dispatched again after a refresh gets a second
\* 401, the stored credentials, isRefreshing, the pending queue and
\* window.location are left as they were, no refresh call is made, and the
\* call is rejected.
C30_SecondUnauthorized == [][C30_SecondUnauthorizedStep]_vars
====
